---- MODULE Spec2Model ----
(***************************************************************************)
(* Model of homework.py: the fitness-tracker module that turns sensor      *)
(* packages (workout code, argument list) into training summaries.         *)
(*                                                                         *)
(* Numbers.  Python computes on ints and floats; the model computes on     *)
(* exact rationals <<numerator, denominator>> in lowest terms with a       *)
(* positive denominator.  A division by zero raises ZeroDivisionError in   *)
(* Python; here it yields the value ZeroDiv, which every later operation   *)
(* propagates, as the exception propagates out of the expression.          *)
(* Binary rounding of floats is not modelled.                              *)
(***************************************************************************)
EXTENDS Integers, Sequences, FiniteSets

VARIABLES packages, i, pc, training, info, out, err

vars == <<packages, i, pc, training, info, out, err>>

(***************************************************************************)
(* Bounds of the explored inputs.                                          *)
(***************************************************************************)
MaxPackages == 3
MaxParts == 3
MaxArgs == 6
MaxActionK == 5

(***************************************************************************)
(* Rational arithmetic.                                                    *)
(***************************************************************************)
Abs(n) == IF n < 0 THEN -n ELSE n

RECURSIVE GCD(_, _)
GCD(a, b) == IF b = 0 THEN a ELSE GCD(b, a % b)

ZeroDiv == <<0, 0>>

Rat(n, d) ==
    IF d = 0 THEN ZeroDiv
    ELSE LET g == GCD(Abs(n), Abs(d))
             s == IF d < 0 THEN -1 ELSE 1
         IN  <<(s * n) \div g, (s * d) \div g>>

FromInt(n) == <<n, 1>>

Raised(x) == x = ZeroDiv

RAdd(x, y) ==
    IF Raised(x) \/ Raised(y) THEN ZeroDiv
    ELSE Rat(x[1] * y[2] + y[1] * x[2], x[2] * y[2])

RSub(x, y) ==
    IF Raised(x) \/ Raised(y) THEN ZeroDiv
    ELSE Rat(x[1] * y[2] - y[1] * x[2], x[2] * y[2])

RMul(x, y) ==
    IF Raised(x) \/ Raised(y) THEN ZeroDiv
    ELSE Rat(x[1] * y[1], x[2] * y[2])

\* Python's x / y: raises ZeroDivisionError when y is zero.
RDiv(x, y) ==
    IF Raised(x) \/ Raised(y) THEN ZeroDiv
    ELSE IF y[1] = 0 THEN ZeroDiv
    ELSE Rat(x[1] * y[2], x[2] * y[1])

\* Python's x // y: the floor of the quotient, raises when y is zero.
RFloorDiv(x, y) ==
    LET q == RDiv(x, y)
    IN  IF Raised(q) THEN ZeroDiv ELSE FromInt(q[1] \div q[2])

\* The value printed by the format specification .3f, in thousandths
\* (round half to even).
Format3f(x) ==
    LET t == x[1] * 1000
        q == t \div x[2]
        r == t % x[2]
    IN  IF 2 * r < x[2] THEN q
        ELSE IF 2 * r > x[2] THEN q + 1
        ELSE IF q % 2 = 0 THEN q ELSE q + 1

(***************************************************************************)
(* Class constants.                                                        *)
(***************************************************************************)
M_IN_KM == 1000

LEN_STEP(cls) == IF cls = "Swimming" THEN Rat(138, 100) ELSE Rat(65, 100)

Running_COEFF_CALORIE_1 == 18
Running_COEFF_CALORIE_2 == 20
Running_COEFF_CALORIE_3 == 60

SportsWalking_COEFF_CALORIE_1 == Rat(35, 1000)
SportsWalking_COEFF_CALORIE_2 == Rat(29, 1000)
SportsWalking_COEFF_CALORIE_3 == 60

Swimming_COEFF_CALORIE_1 == Rat(11, 10)
Swimming_COEFF_CALORIE_2 == 2

\* The dataclass fields of each class, in the order of __init__.
Fields(cls) ==
    CASE cls = "Running"       -> <<"action", "duration", "weight">>
      [] cls = "SportsWalking" -> <<"action", "duration", "weight", "height">>
      [] cls = "Swimming"      -> <<"action", "duration", "weight",
                                    "length_pool", "count_pool">>

(***************************************************************************)
(* Values a Python name can hold.                                          *)
(***************************************************************************)
None == [cls |-> "None"]
Unbound == [cls |-> "unbound"]
TypeError == [cls |-> "TypeError"]

(***************************************************************************)
(* Training and its subclasses.                                            *)
(***************************************************************************)
\* Variant: the distance of a swim taken from the pool instead of the strokes.
get_distance_FromPool(t) ==
    IF t.cls = "Swimming"
    THEN RDiv(RMul(t.length_pool, t.count_pool), FromInt(M_IN_KM))
    ELSE RDiv(RMul(t.action, LEN_STEP(t.cls)), FromInt(M_IN_KM))

get_distance(t) ==
    RDiv(RMul(t.action, LEN_STEP(t.cls)), FromInt(M_IN_KM))

\* Variant: a zero duration is answered with speed 0 instead of raising.
Training_get_mean_speed_Guarded(t) ==
    IF t.duration[1] = 0 THEN FromInt(0)
    ELSE RDiv(get_distance(t), t.duration)

Training_get_mean_speed(t) == RDiv(get_distance(t), t.duration)

\* Variant: Swimming without its override of get_mean_speed.
Swimming_get_mean_speed_Inherited(t) == Training_get_mean_speed(t)

Swimming_get_mean_speed(t) ==
    RDiv(RDiv(RMul(t.length_pool, t.count_pool), FromInt(M_IN_KM)), t.duration)

get_mean_speed(t) ==
    IF t.cls = "Swimming" THEN Swimming_get_mean_speed(t)
    ELSE Training_get_mean_speed(t)

\* Variant: the duration left in hours.
Running_get_spent_calories_InHours(t) ==
    LET average_speed == get_mean_speed(t)
    IN  RMul(RDiv(RMul(RSub(RMul(FromInt(Running_COEFF_CALORIE_1), average_speed),
                            FromInt(Running_COEFF_CALORIE_2)),
                       t.weight),
                  FromInt(M_IN_KM)),
             t.duration)

\* Variant: negative results replaced by 0.
Running_get_spent_calories_Clamped(t) ==
    LET average_speed == get_mean_speed(t)
        c == RMul(RDiv(RMul(RSub(RMul(FromInt(Running_COEFF_CALORIE_1),
                                      average_speed),
                                 FromInt(Running_COEFF_CALORIE_2)),
                            t.weight),
                       FromInt(M_IN_KM)),
                  RMul(t.duration, FromInt(Running_COEFF_CALORIE_3)))
    IN  IF ~Raised(c) /\ c[1] < 0 THEN FromInt(0) ELSE c

Running_get_spent_calories(t) ==
    LET average_speed == get_mean_speed(t)
    IN  RMul(RDiv(RMul(RSub(RMul(FromInt(Running_COEFF_CALORIE_1), average_speed),
                            FromInt(Running_COEFF_CALORIE_2)),
                       t.weight),
                  FromInt(M_IN_KM)),
             RMul(t.duration, FromInt(Running_COEFF_CALORIE_3)))

\* Variant: the quotient rounded to the nearest integer instead of floored.
SportsWalking_get_spent_calories_Rounded(t) ==
    LET average_speed == get_mean_speed(t)
        q == RDiv(RMul(average_speed, average_speed), t.height)
        rounded == IF Raised(q) THEN ZeroDiv
                   ELSE FromInt((2 * q[1] + q[2]) \div (2 * q[2]))
    IN  RMul(RAdd(RMul(SportsWalking_COEFF_CALORIE_1, t.weight),
                  RMul(RMul(rounded, SportsWalking_COEFF_CALORIE_2),
                       t.weight)),
             RMul(t.duration, FromInt(SportsWalking_COEFF_CALORIE_3)))

SportsWalking_get_spent_calories(t) ==
    LET average_speed == get_mean_speed(t)
    IN  RMul(RAdd(RMul(SportsWalking_COEFF_CALORIE_1, t.weight),
                  RMul(RMul(RFloorDiv(RMul(average_speed, average_speed),
                                      t.height),
                            SportsWalking_COEFF_CALORIE_2),
                       t.weight)),
             RMul(t.duration, FromInt(SportsWalking_COEFF_CALORIE_3)))

Swimming_get_spent_calories(t) ==
    LET average_speed == get_mean_speed(t)
    IN  RMul(RMul(RAdd(average_speed, Swimming_COEFF_CALORIE_1),
                  FromInt(Swimming_COEFF_CALORIE_2)),
             t.weight)

get_spent_calories(t) ==
    CASE t.cls = "Running"       -> Running_get_spent_calories(t)
      [] t.cls = "SportsWalking" -> SportsWalking_get_spent_calories(t)
      [] t.cls = "Swimming"      -> Swimming_get_spent_calories(t)

InfoMessage(training_type, duration, distance, speed, calories) ==
    [training_type |-> training_type, duration |-> duration,
     distance |-> distance, speed |-> speed, calories |-> calories]

\* The InfoMessage of a Training object (evaluated only when no field raises).
show_training_info(t) ==
    InfoMessage(t.cls, t.duration, get_distance(t), get_mean_speed(t),
                get_spent_calories(t))

\* The exception show_training_info raises on the value t, or "none".
show_training_info_raises(t) ==
    IF t = None THEN "AttributeError"
    ELSE IF \/ Raised(get_distance(t))
            \/ Raised(get_mean_speed(t))
            \/ Raised(get_spent_calories(t))
         THEN "ZeroDivisionError"
    ELSE "none"

get_message(m) ==
    [training_type |-> m.training_type,
     duration |-> Format3f(m.duration),
     distance |-> Format3f(m.distance),
     speed |-> Format3f(m.speed),
     calories |-> Format3f(m.calories)]

(***************************************************************************)
(* read_package.                                                           *)
(***************************************************************************)
RUN == <<"R", "U", "N">>
WLK == <<"W", "L", "K">>
SWM == <<"S", "W", "M">>

conformity == <<[workout |-> RUN, workout_class |-> "Running"],
                [workout |-> WLK, workout_class |-> "SportsWalking"],
                [workout |-> SWM, workout_class |-> "Swimming"]>>

\* Python's  sub in s  on strings.
Contains(sub, s) ==
    \E k \in 0..(Len(s) - Len(sub)) : SubSeq(s, k + 1, k + Len(sub)) = sub

\* Variant: surplus arguments are dropped instead of rejected.
Construct_DropSurplus(cls, data) ==
    IF Len(data) < Len(Fields(cls)) THEN TypeError
    ELSE [f \in {Fields(cls)[k] : k \in 1..Len(Fields(cls))} \cup {"cls"} |->
            IF f = "cls" THEN cls
            ELSE LET k == CHOOSE j \in 1..Len(Fields(cls)) : Fields(cls)[j] = f
                 IN  data[k]]

\* workout_class(*data): the dataclass __init__ takes exactly its fields.
Construct(cls, data) ==
    IF Len(data) # Len(Fields(cls)) THEN TypeError
    ELSE [f \in {Fields(cls)[k] : k \in 1..Len(data)} \cup {"cls"} |->
            IF f = "cls" THEN cls
            ELSE LET k == CHOOSE j \in 1..Len(data) : Fields(cls)[j] = f
                 IN  data[k]]

\* Variant: the last matching entry of conformity wins.
FirstMatch_Last(workout_type) ==
    LET matches == {k \in 1..Len(conformity) :
                        Contains(conformity[k].workout, workout_type)}
    IN  IF matches = {} THEN 0
        ELSE CHOOSE k \in matches : \A j \in matches : k >= j

\* The index of the first entry of conformity whose key the code contains.
FirstMatch(workout_type) ==
    LET matches == {k \in 1..Len(conformity) :
                        Contains(conformity[k].workout, workout_type)}
    IN  IF matches = {} THEN 0
        ELSE CHOOSE k \in matches : \A j \in matches : k <= j

read_package(workout_type, data) ==
    LET k == FirstMatch(workout_type)
    IN  IF k = 0 THEN None
        ELSE Construct(conformity[k].workout_class, data)

(***************************************************************************)
(* Inputs.  A workout code is a string of characters, built here from at   *)
(* most MaxParts fragments; an argument list holds at most MaxArgs numbers.*)
(***************************************************************************)
XYZ == <<"X", "Y", "Z">>

Fragments == {RUN, WLK, SWM, <<"X">>, <<"R", "U">>, <<"N">>}

RECURSIVE Codes(_)
Codes(n) ==
    IF n = 0 THEN {<<>>}
    ELSE Codes(n - 1) \cup {c \o f : c \in Codes(n - 1), f \in Fragments}

ArgAt(k) ==
    CASE k = 1 -> 720
      [] k = 2 -> 1
      [] k = 3 -> 80
      [] k = 4 -> 25
      [] k = 5 -> 40
      [] OTHER -> 7

ArgLists == {[k \in 1..n |-> FromInt(ArgAt(k))] : n \in 0..MaxArgs}

DispatchPkgs == {<<c, d>> : c \in Codes(MaxParts), d \in ArgLists}

Actions == {720} \cup {3000 * k : k \in 0..MaxActionK}
Durations == {Rat(-1, 1), Rat(0, 1), Rat(1, 2), Rat(1, 1), Rat(2, 1)}
Weights == {0, 75, 80}
Heights == {0, 100, 180}
PoolLengths == {25, 50}
PoolCounts == {0, 40}

CalcPkgs ==
    {<<RUN, <<FromInt(a), d, FromInt(w)>>>> :
        a \in Actions, d \in Durations, w \in Weights}
    \cup
    {<<WLK, <<FromInt(a), d, FromInt(w), FromInt(h)>>>> :
        a \in Actions, d \in Durations, w \in Weights, h \in Heights}
    \cup
    {<<SWM, <<FromInt(a), d, FromInt(w), FromInt(l), FromInt(c)>>>> :
        a \in Actions, d \in Durations, w \in Weights,
        l \in PoolLengths, c \in PoolCounts}

Ints(s) == [k \in 1..Len(s) |-> FromInt(s[k])]

\* The list of the __main__ block.
ProgramPackages ==
    <<<<SWM, Ints(<<720, 1, 80, 25, 40>>)>>,
      <<RUN, Ints(<<15000, 1, 75>>)>>,
      <<WLK, Ints(<<9000, 1, 75, 180>>)>>>>

\* Entries of the lists the loop is run on: those of the program and
\* malformed ones.
MainPkgs ==
    {ProgramPackages[k] : k \in 1..Len(ProgramPackages)}
    \cup {<<XYZ, Ints(<<9000, 1, 75>>)>>,
          <<RUN, Ints(<<15000, 1>>)>>,
          <<WLK, Ints(<<9000, 0, 75, 180>>)>>}

RECURSIVE Lists(_, _)
Lists(S, n) ==
    IF n = 0 THEN {<<>>}
    ELSE Lists(S, n - 1) \cup {Append(l, e) : l \in Lists(S, n - 1), e \in S}

InputLists ==
    Lists(MainPkgs, MaxPackages)
    \cup {<<p>> : p \in DispatchPkgs}
    \cup {<<p>> : p \in CalcPkgs}

(***************************************************************************)
(* The program: the loop of the __main__ block and main.                   *)
(***************************************************************************)
Init ==
    /\ packages \in InputLists
    /\ i = 1
    /\ pc = "read_package"
    /\ training = Unbound
    /\ info = Unbound
    /\ out = <<>>
    /\ err = "none"

\* training = read_package(workout_type, data)
ReadPackage ==
    /\ pc = "read_package"
    /\ i <= Len(packages)
    /\ LET r == read_package(packages[i][1], packages[i][2])
       IN  IF r = TypeError
           THEN /\ pc' = "raised"
                /\ err' = "TypeError"
                /\ UNCHANGED training
           ELSE /\ training' = r
                /\ pc' = "show_training_info"
                /\ UNCHANGED err
    /\ UNCHANGED <<packages, i, info, out>>

\* main: info = training.show_training_info()
MainShowTrainingInfo ==
    /\ pc = "show_training_info"
    /\ LET e == show_training_info_raises(training)
       IN  IF e # "none"
           THEN /\ pc' = "raised"
                /\ err' = e
                /\ UNCHANGED info
           ELSE /\ info' = show_training_info(training)
                /\ pc' = "print"
                /\ UNCHANGED err
    /\ UNCHANGED <<packages, i, training, out>>

\* Variant: the line is put in front of the lines printed so far.
MainPrint_InFront ==
    /\ pc = "print"
    /\ out' = <<get_message(info)>> \o out
    /\ info' = Unbound
    /\ i' = i + 1
    /\ pc' = "read_package"
    /\ UNCHANGED <<packages, training, err>>

\* main: print(info.get_message()); the loop then takes the next entry.
MainPrint ==
    /\ pc = "print"
    /\ out' = Append(out, get_message(info))
    /\ info' = Unbound
    /\ i' = i + 1
    /\ pc' = "read_package"
    /\ UNCHANGED <<packages, training, err>>

\* The for loop is exhausted.
LoopEnd ==
    /\ pc = "read_package"
    /\ i > Len(packages)
    /\ pc' = "done"
    /\ UNCHANGED <<packages, i, training, info, out, err>>

Next == ReadPackage \/ MainShowTrainingInfo \/ MainPrint \/ LoopEnd

Spec == Init /\ [][Next]_vars

(***************************************************************************)
(* Properties.  The entry being processed is packages[i]; ReadPackage has  *)
(* acted on it when pc is "show_training_info", "print" or "raised", and   *)
(* main has been entered for it unless the error is a TypeError.           *)
(***************************************************************************)
InEntry == i \in 1..Len(packages) /\ pc # "read_package"

workout_type == packages[i][1]

data == packages[i][2]

HasKey(key) == Contains(key, workout_type)

\* The record in training was built from the entry being processed.
HasRecord == InEntry /\ training # None /\ err # "TypeError"

\* C1: for every workout code containing none of 'RUN', 'WLK', 'SWM',
\* read_package fails with an explicit "unknown activity" error and never
\* hands None to its caller.
C1_UnknownCodeFails ==
    (InEntry /\ ~HasKey(RUN) /\ ~HasKey(WLK) /\ ~HasKey(SWM))
        => (pc = "raised" /\ err = "UnknownActivity" /\ training # None)

\* The class the mapping order RUN, WLK, SWM selects for the current code.
C2_Expected ==
    IF HasKey(RUN) THEN "Running"
    ELSE IF HasKey(WLK) THEN "SportsWalking"
    ELSE IF HasKey(SWM) THEN "Swimming"
    ELSE "None"

C2_FieldCount(cls) ==
    CASE cls = "Running" -> 3
      [] cls = "SportsWalking" -> 4
      [] cls = "Swimming" -> 5
      [] OTHER -> -1

\* C2: the first key of RUN, WLK, SWM contained in the code decides the
\* class, wherever the keys occur in the code: the record returned is of
\* that class, and a construction that fails is that of this class.
C2_FirstContainedKeyWins ==
    InEntry =>
        /\ err # "TypeError" => training.cls = C2_Expected
        /\ err = "TypeError" => Len(data) # C2_FieldCount(C2_Expected)

\* A code with 'WLK' before 'RUN' has been read as Running.
C2_Witness ==
    /\ InEntry
    /\ workout_type = WLK \o RUN
    /\ pc = "show_training_info"
    /\ training.cls = "Running"

\* C9: when the number of arguments differs from the number of fields of
\* the matched class (3, 4, 5) read_package raises TypeError and returns no
\* record; a record is built only from an exactly matching list, field by
\* field.
C9_ArgumentCount ==
    (InEntry /\ C2_Expected # "None") =>
        /\ Len(data) # C2_FieldCount(C2_Expected)
              => (pc = "raised" /\ err = "TypeError"
                  /\ (i = 1 => training = Unbound))
        /\ Len(data) = C2_FieldCount(C2_Expected)
              => /\ err # "TypeError"
                 /\ DOMAIN training =
                        {"cls"} \cup {Fields(training.cls)[k] : k \in 1..Len(data)}
                 /\ \A k \in 1..Len(data) :
                        training[Fields(training.cls)[k]] = data[k]

\* read_package raised on a list with more arguments than Running has fields.
C9_Witness ==
    /\ InEntry
    /\ HasKey(RUN)
    /\ Len(data) > 3
    /\ pc = "raised"
    /\ err = "TypeError"

\* main holds the summary of the entry being processed.
HasSummary == InEntry /\ pc = "print"

C3_Input == <<RUN, Ints(<<15000, 1, 75>>)>>

\* C3 as stated: action=15000, duration=1, weight=75 under 'RUN' gives
\* distance 9.75, speed 9.75 and calories 653.625.
C3_RunningScenario_Stated ==
    (HasSummary /\ packages[i] = C3_Input)
        => /\ info.distance = Rat(975, 100)
           /\ info.speed = Rat(975, 100)
           /\ info.calories = Rat(653625, 1000)

\* C3 amended: the same input gives distance 9.75, speed 9.75 and calories
\* 699.75, the value of (18*9.75-20)*75/1000*(1*60), printed as 699.750.
C3_RunningScenario ==
    (HasSummary /\ packages[i] = C3_Input)
        => /\ info.training_type = "Running"
           /\ info.distance = Rat(975, 100)
           /\ info.speed = Rat(975, 100)
           /\ info.calories = Rat(69975, 100)
           /\ get_message(info).calories = 699750

C3_Witness == HasSummary /\ packages[i] = C3_Input

\* C4 as stated: no summary is produced from a record whose duration is
\* zero or negative.
C4_NonPositiveDurationFails_Stated ==
    HasSummary => info.duration[1] > 0

\* C4 amended: a record with duration zero never yields a summary, whatever
\* its class: show_training_info raises ZeroDivisionError; it raises for no
\* other record except a SportsWalking one with height zero, so a negative
\* duration yields a summary computed from it.
C4_ZeroDurationFails ==
    /\ HasSummary => info.duration[1] # 0
    /\ (HasRecord /\ pc = "raised")
          => /\ err = "ZeroDivisionError"
             /\ \/ training.duration[1] = 0
                \/ training.cls = "SportsWalking" /\ training.height[1] = 0
    /\ (HasRecord /\ training.duration[1] = 0)
          => pc \in {"show_training_info", "raised"}

\* show_training_info raised on a Swimming record with duration zero.
C4_Witness ==
    /\ HasRecord
    /\ training.cls = "Swimming"
    /\ training.duration[1] = 0
    /\ pc = "raised"
    /\ err = "ZeroDivisionError"

\* Step length in hundredths of a metre, as the claim states it.
C5_StepLength(cls) == IF cls = "Swimming" THEN 138 ELSE 65

\* C5: the distance of every record, and of every summary, is
\* action * step_length / 1000 with step length 0.65 (Running,
\* SportsWalking) or 1.38 (Swimming, whatever the pool), hence not negative
\* when action is not negative.
C5_Distance ==
    /\ (HasRecord /\ pc = "show_training_info")
          => LET d == get_distance(training)
             IN  /\ d[2] > 0
                 /\ d[1] * 100000 * data[1][2]
                      = data[1][1] * C5_StepLength(training.cls) * d[2]
    /\ HasSummary
          => /\ info.distance[2] > 0
             /\ info.distance[1] * 100000 * data[1][2]
                  = data[1][1] * C5_StepLength(training.cls) * info.distance[2]
             /\ data[1][1] >= 0 => info.distance[1] >= 0

\* The summary of a Swimming record with a positive action count and a
\* non-empty pool swim.
C5_Witness ==
    /\ HasSummary
    /\ info.training_type = "Swimming"
    /\ training.action[1] > 0
    /\ training.length_pool[1] * training.count_pool[1] > 0

\* C6: for a Swimming record with duration > 0 the speed is
\* pool_length * pool_laps / 1000 / duration and the calories are
\* (speed + 1.1) * 2 * weight; a record differing only in action_count has
\* the same speed and calories and another distance.
C6_SwimmingSpeed ==
    (HasSummary /\ info.training_type = "Swimming" /\ info.duration[1] > 0)
        => /\ info.speed[2] > 0
           /\ info.speed[1] * 1000 * info.duration[1]
                = training.length_pool[1] * training.count_pool[1]
                    * info.duration[2] * info.speed[2]
           /\ info.calories[2] > 0
           /\ info.calories[1] * 10 * info.speed[2]
                = (10 * info.speed[1] + 11 * info.speed[2])
                    * 2 * training.weight[1] * info.calories[2]
           /\ \A a \in Actions :
                 LET other == [training EXCEPT !.action = FromInt(a)]
                 IN  /\ show_training_info_raises(other) = "none"
                     /\ show_training_info(other).speed = info.speed
                     /\ show_training_info(other).calories = info.calories
                     /\ FromInt(a) # training.action
                          => show_training_info(other).distance # info.distance

C6_Witness ==
    /\ HasSummary
    /\ info.training_type = "Swimming"
    /\ info.duration[1] > 0
    /\ info.speed[1] > 0
    /\ training.action[1] > 0

\* floor(speed^2 / height) for the summary in info, height > 0.
C7_Floor ==
    (info.speed[1] * info.speed[1])
        \div (info.speed[2] * info.speed[2] * training.height[1])

\* C7: SportsWalking calories are
\* (0.035*weight + floor(speed^2/height)*0.029*weight) * (duration*60);
\* when speed^2 < height they are 0.035*weight*duration*60, and
\* action=9000, duration=1, weight=75, height=180 gives 157.5.
C7_WalkingCalories ==
    (HasSummary /\ info.training_type = "SportsWalking"
                /\ training.height[1] > 0)
        => /\ info.calories
                = Rat(training.weight[1] * (35 + 29 * C7_Floor)
                          * 60 * info.duration[1],
                      1000 * info.duration[2])
           /\ info.speed[1] * info.speed[1]
                < training.height[1] * info.speed[2] * info.speed[2]
                => info.calories
                     = Rat(35 * training.weight[1] * 60 * info.duration[1],
                           1000 * info.duration[2])
           /\ data = Ints(<<9000, 1, 75, 180>>) => info.calories = Rat(1575, 10)

\* A walking summary whose speed^2 / height is at least 1 and not integral.
C7_Witness ==
    /\ HasSummary
    /\ info.training_type = "SportsWalking"
    /\ training.height[1] > 0
    /\ training.weight[1] > 0
    /\ C7_Floor >= 1
    /\ (info.speed[1] * info.speed[1])
          % (info.speed[2] * info.speed[2] * training.height[1]) # 0

\* C10: Running calories are (18*speed - 20) * weight / 1000 * (duration*60)
\* with speed = action * 0.65 / 1000 / duration, with no lower bound: they
\* are negative when weight > 0, duration > 0 and 18 * speed < 20.
C10_RunningCalories ==
    (HasSummary /\ info.training_type = "Running")
        => LET a  == training.action[1]
               w  == training.weight[1]
               dn == training.duration[1]
               dd == training.duration[2]
           IN  /\ info.speed = Rat(a * 13 * dd, 20000 * dn)
               /\ info.calories
                    = Rat((117 * a * dd - 200000 * dn) * w * 3, 500000 * dd)
               /\ (w > 0 /\ dn > 0 /\ 117 * a * dd < 200000 * dn)
                     => info.calories[1] < 0

\* A running summary at low speed with negative calories.
C10_Witness ==
    /\ HasSummary
    /\ info.training_type = "Running"
    /\ training.weight[1] > 0
    /\ training.duration[1] > 0
    /\ training.action[1] > 0
    /\ 18 * info.speed[1] < 20 * info.speed[2]
    /\ info.calories[1] < 0

\* The line printed for an entry.
C8_Line(p) == get_message(show_training_info(read_package(p[1], p[2])))

\* C8: one line per entry, in input order: when entry i is being
\* processed exactly the lines of entries 1..i-1 have been printed, in this
\* order; a run that ends normally has printed a line for every entry; the
\* list of the program gives its three lines.
C8_OneLinePerEntryInOrder ==
    /\ Len(out) = i - 1
    /\ i <= Len(packages) + 1
    /\ \A k \in 1..Len(out) : out[k] = C8_Line(packages[k])
    /\ pc = "done" => Len(out) = Len(packages)
    /\ (pc = "done" /\ packages = ProgramPackages)
          => out = <<[training_type |-> "Swimming", duration |-> 1000,
                      distance |-> 994, speed |-> 1000, calories |-> 336000],
                     [training_type |-> "Running", duration |-> 1000,
                      distance |-> 9750, speed |-> 9750, calories |-> 699750],
                     [training_type |-> "SportsWalking", duration |-> 1000,
                      distance |-> 5850, speed |-> 5850, calories |-> 157500]>>

\* The loop over the list of the program has ended with three lines.
C8_Witness ==
    /\ pc = "done"
    /\ packages = ProgramPackages
    /\ Len(out) = 3

====
